---- MODULE Spec2Model ----
(***************************************************************************)
(* ldap_audit_log_analysis: the record parser (parse_log_file), the        *)
(* reducers calculate_average_execution_time and                           *)
(* calculate_execution_time_distribution, and main, which chains them.     *)
(*                                                                         *)
(* Text.  A string is a sequence of tokens; the token ": " is the          *)
(* two-character separator the parser splits on, every other token is a    *)
(* run of characters holding neither ": " nor "--" nor a line break.  A    *)
(* file is a sequence of raw lines, a raw line a sequence of fragments     *)
(* joined by "--".                                                         *)
(*                                                                         *)
(* Values.  A Python value held in an event dict is a record               *)
(* [kind, items, num]: a str (kind "str", items = <<the string>>), a list  *)
(* of str (kind "list") or an int (kind "int", num).  A dict is a function *)
(* from keys (strings) to values; its insertion order, which only the      *)
(* report's printing reads, is not kept.                                   *)
(***************************************************************************)
EXTENDS Integers, Sequences, FiniteSets, TLC

\* ---------------------------------------------------------------- bounds

\* raw lines in an input file
MaxRawLines == 3
\* events handed to a reducer called on its own
MaxEvents == 3
\* the line ceiling of main (500000 in the source, line 35), scaled to the
\* files of at most MaxRawLines lines
line_threshold == 2

\* ------------------------------------------------------------------ text

Marker == <<"AuditV3">>
Separator == ": "
EmptyLine == <<>>

KeyTimestamp == <<"timestamp">>
KeyOperationType == <<"operation_type">>
KeyReceived == <<"received">>
KeyExecutionTime == <<"ExecutionTime">>
KeyFilter == <<"filter">>
KeyClient == <<"client">>

StrV(s) == [kind |-> "str", items |-> <<s>>, num |-> 0]
ListV(ss) == [kind |-> "list", items |-> ss, num |-> 0]
IntV(n) == [kind |-> "int", items |-> <<>>, num |-> n]

EmptyDict == <<>>
DictSet(d, k, v) == [x \in DOMAIN d \cup {k} |-> IF x = k THEN v ELSE d[x]]

Abs(n) == IF n < 0 THEN 0 - n ELSE n

\* -------------------------------------------- float arithmetic (binary64)
\* A double x >= 0 is [m, e]: m its significand as a bit string, most
\* significant bit first and without leading zeros (<<>> for 0.0), e the
\* exponent of its last bit; x = m * 2^e.  Bit strings are worked on in
\* limbs of LimbBits bits.

MantissaBits == 53
LimbBits == 10
LimbBase == 1024
FracLimbs == 8

Pow2(k) == CASE k = 0 -> 1 [] k = 1 -> 2 [] k = 2 -> 4 [] k = 3 -> 8 [] k = 4 -> 16
             [] k = 5 -> 32 [] k = 6 -> 64 [] k = 7 -> 128 [] k = 8 -> 256 [] k = 9 -> 512

\* the LimbBits binary digits of a limb, most significant first
LimbToBits(d) == [j \in 1..LimbBits |-> (d \div Pow2(LimbBits - j)) % 2]

\* the limb a string of LimbBits binary digits stands for
BitsToLimb(b) == b[1] * 512 + b[2] * 256 + b[3] * 128 + b[4] * 64 + b[5] * 32
                 + b[6] * 16 + b[7] * 8 + b[8] * 4 + b[9] * 2 + b[10]

\* a limb string (most significant first) as a bit string
LimbsToBits(ls) ==
    [j \in 1..(LimbBits * Len(ls)) |->
        LimbToBits(ls[((j - 1) \div LimbBits) + 1])[((j - 1) % LimbBits) + 1]]

Zeros(k) == [j \in 1..k |-> 0]

\* a bit string as limbs, zero-padded on the left to whole limbs
BitsToLimbs(b) ==
    LET pad == (LimbBits - (Len(b) % LimbBits)) % LimbBits
        p   == Zeros(pad) \o b
    IN  [j \in 1..(Len(p) \div LimbBits) |->
            BitsToLimb(SubSeq(p, LimbBits * (j - 1) + 1, LimbBits * j))]

\* a bit string without its leading zeros
Normalize(b) ==
    IF \A j \in 1..Len(b) : b[j] = 0 THEN <<>>
    ELSE LET f == CHOOSE j \in 1..Len(b) : b[j] = 1 /\ \A k \in 1..(j - 1) : b[k] = 0
         IN  SubSeq(b, f, Len(b))

\* the binary digits of a natural number below 2^30
BitsOf(n) ==
    Normalize(LimbsToBits(<<n \div (LimbBase * LimbBase), (n \div LimbBase) % LimbBase,
                            n % LimbBase>>))

\* the value of a bit string of at most 30 bits
BitsValue(b) ==
    LET ls == BitsToLimbs(b)
    IN  IF Len(ls) = 0 THEN 0
        ELSE IF Len(ls) = 1 THEN ls[1]
        ELSE IF Len(ls) = 2 THEN ls[1] * LimbBase + ls[2]
        ELSE (ls[Len(ls) - 2] * LimbBase + ls[Len(ls) - 1]) * LimbBase + ls[Len(ls)]

RECURSIVE FracLimbsOf(_, _, _)
\* the first k base-LimbBase digits of rem/d (rem < d <= 2^20), then the last remainder
FracLimbsOf(rem, d, k) ==
    IF k = 0 THEN <<rem>>
    ELSE <<(rem * LimbBase) \div d>> \o FracLimbsOf((rem * LimbBase) % d, d, k - 1)

\* b + 1 on a bit string, one bit longer on carry out
BitsInc(b) ==
    IF \A j \in 1..Len(b) : b[j] = 1 THEN <<1>> \o Zeros(Len(b))
    ELSE LET p == CHOOSE j \in 1..Len(b) : b[j] = 0 /\ \A k \in (j + 1)..Len(b) : b[k] = 1
         IN  SubSeq(b, 1, p - 1) \o <<1>> \o Zeros(Len(b) - p)

\* round-to-nearest, ties-to-even, of the normalized bit string b (its last bit
\* weighs 2^e; sticky: a nonzero part lies below b) to MantissaBits bits
RoundNearestEven(b, e, sticky) ==
    IF Len(b) <= MantissaBits THEN [m |-> b, e |-> e]
    ELSE LET keep == SubSeq(b, 1, MantissaBits)
             rest == SubSeq(b, MantissaBits + 1, Len(b))
             low  == sticky \/ \E k \in 2..Len(rest) : rest[k] = 1
             up   == rest[1] = 1 /\ (low \/ keep[MantissaBits] = 1)
             r    == IF up THEN BitsInc(keep) ELSE keep
             e2   == e + Len(rest)
         IN  IF Len(r) > MantissaBits
             THEN [m |-> SubSeq(r, 1, MantissaBits), e |-> e2 + 1]
             ELSE [m |-> r, e |-> e2]

\* Python's int / int for 0 <= n < 2^30 and 0 < d <= 2^20: the quotient,
\* correctly rounded to a double
TrueDivide(n, d) ==
    IF n = 0 THEN [m |-> <<>>, e |-> 0]
    ELSE LET f    == FracLimbsOf(n % d, d, FracLimbs)
             full == BitsOf(n \div d) \o LimbsToBits(SubSeq(f, 1, FracLimbs))
         IN  RoundNearestEven(Normalize(full), 0 - LimbBits * FracLimbs,
                              f[FracLimbs + 1] # 0)

RECURSIVE MulLimbs(_, _, _)
\* ls * k + carry on a limb string, 0 < k < 2^20
MulLimbs(ls, k, carry) ==
    IF ls = <<>> THEN <<carry \div LimbBase, carry % LimbBase>>
    ELSE LET t == ls[Len(ls)] * k + carry
         IN  Append(MulLimbs(SubSeq(ls, 1, Len(ls) - 1), k, t \div LimbBase),
                    t % LimbBase)

\* float * int for an int 0 < k < 2^20: the product rounded to a double
FloatMul(x, k) ==
    IF x.m = <<>> THEN x
    ELSE RoundNearestEven(Normalize(LimbsToBits(MulLimbs(BitsToLimbs(x.m), k, 0))),
                          x.e, FALSE)

\* int(x) for a double 0 <= x < 2^30: truncation
FloatToInt(x) ==
    IF x.m = <<>> \/ Len(x.m) + x.e <= 0 THEN 0
    ELSE BitsValue(SubSeq(x.m, 1, Len(x.m) + x.e))

\* ------------------------------------------------------------ timestamps

\* The strings of the model that datetime.strptime accepts under
\* "%Y-%m-%d-%H:%M:%S.%f%z", each with the instant it denotes, in
\* microseconds after 2024-01-01 10:00:00 UTC.
TimestampTable ==
    [s \in {"2024-01-01-10:00:00.000000+00:00", "2024-01-01-10:00:01.000000+00:00",
            "2024-01-01-10:00:00.150000+00:00", "2024-01-01-11:00:01.001000+01:00"} |->
        CASE s = "2024-01-01-10:00:00.000000+00:00" -> 0
          [] s = "2024-01-01-10:00:01.000000+00:00" -> 1000000
          [] s = "2024-01-01-10:00:00.150000+00:00" -> 150000
          [] s = "2024-01-01-11:00:01.001000+01:00" -> 1001000]

\* datetime.strptime(s, "%Y-%m-%d-%H:%M:%S.%f%z") of a str: the instant, or a
\* ValueError
StrpTime(s) ==
    IF Len(s) = 1 /\ s[1] \in DOMAIN TimestampTable
    THEN [ok |-> TRUE, us |-> TimestampTable[s[1]]]
    ELSE [ok |-> FALSE, us |-> 0]

\* int(abs((received - timestamp).total_seconds() * 1000)): total_seconds() is
\* the microsecond count / 10^6 as a double, the product is a double again.
\* Both roundings are symmetric in the sign, so abs is taken first.
ExecutionTimeOf(timestamp_us, received_us) ==
    FloatToInt(FloatMul(TrueDivide(Abs(received_us - timestamp_us), 1000000), 1000))

\* ---------------------------------------------------------------- parser

\* lines[j] of the source, j counted from 0
At(ls, j) == ls[j + 1]

\* line.split(": ", 1)
Split(line) ==
    IF \E j \in 1..Len(line) : line[j] = Separator
    THEN LET p == CHOOSE j \in 1..Len(line) :
                    line[j] = Separator /\ \A k \in 1..(j - 1) : line[k] # Separator
         IN  <<SubSeq(line, 1, p - 1), SubSeq(line, p + 1, Len(line))>>
    ELSE <<line>>

\* the dict a marker line at j opens
NewEvent(ls, j) ==
    DictSet(DictSet(EmptyDict, KeyTimestamp, StrV(At(ls, j + 1))),
            KeyOperationType, StrV(At(ls, j + 2)))

\* an attribute line's key and value stored in the current event
AddAttribute(ev, key, value) ==
    IF key \in DOMAIN ev
    THEN IF ev[key].kind = "list"
         THEN DictSet(ev, key, ListV(Append(ev[key].items, value)))
         ELSE DictSet(ev, key, ListV(<<ev[key].items[1], value>>))
    ELSE DictSet(ev, key, StrV(value))

\* the test that closes the current event after a step left the index at j
AtBoundary(ls, j) == j = Len(ls) \/ At(ls, j) = Marker

\* what datetime.strptime(ev[key], ...) raises, "none" when it returns
StrpTimeError(ev, key) ==
    IF key \notin DOMAIN ev THEN "KeyError"
    ELSE IF ev[key].kind # "str" THEN "TypeError"
    ELSE IF ~StrpTime(ev[key].items[1]).ok THEN "ValueError"
    ELSE "none"

\* Finalize with each event closed under its own try/except: an event whose
\* timestamp or received cannot be read is dropped and the parse goes on
FinalizeSkippingMalformed(ev) ==
    LET e1 == StrpTimeError(ev, KeyTimestamp)
        e2 == StrpTimeError(ev, KeyReceived)
    IN  IF e1 # "none" \/ e2 # "none" THEN [err |-> "none", event |-> ev, append |-> FALSE]
        ELSE [err |-> "none",
              event |-> DictSet(ev, KeyExecutionTime,
                            IntV(ExecutionTimeOf(StrpTime(ev[KeyTimestamp].items[1]).us,
                                                 StrpTime(ev[KeyReceived].items[1]).us))),
              append |-> TRUE]

\* the execution time computed and stored when an event is closed
Finalize(ev) ==
    LET e1 == StrpTimeError(ev, KeyTimestamp)
        e2 == StrpTimeError(ev, KeyReceived)
    IN  IF e1 # "none" THEN [err |-> e1, event |-> ev, append |-> FALSE]
        ELSE IF e2 # "none" THEN [err |-> e2, event |-> ev, append |-> FALSE]
        ELSE [err |-> "none",
              event |-> DictSet(ev, KeyExecutionTime,
                            IntV(ExecutionTimeOf(StrpTime(ev[KeyTimestamp].items[1]).us,
                                                 StrpTime(ev[KeyReceived].items[1]).us))),
              append |-> TRUE]

\* one pass of the while loop from the parser state st = [i, current_event,
\* events, err]
Iteration(ls, st) ==
    LET j == st.i
        opened == At(ls, j) = Marker
        short == opened /\ j + 2 >= Len(ls)
        ev == IF opened
              THEN (IF ~short THEN NewEvent(ls, j)
                    ELSE IF j + 1 < Len(ls)
                    THEN DictSet(EmptyDict, KeyTimestamp, StrV(At(ls, j + 1)))
                    ELSE EmptyDict)
              ELSE LET parts == Split(At(ls, j))
                   IN  IF Len(parts) = 2
                       THEN AddAttribute(st.current_event, parts[1], parts[2])
                       ELSE st.current_event
        j2 == IF opened THEN j + 3 ELSE j + 1
    IN  IF short
        THEN [i |-> j, current_event |-> ev, events |-> st.events, err |-> "IndexError"]
        ELSE IF AtBoundary(ls, j2)
        THEN LET f == Finalize(ev)
             IN  [i |-> j2, current_event |-> f.event,
                  events |-> IF f.append THEN Append(st.events, f.event) ELSE st.events,
                  err |-> f.err]
        ELSE [i |-> j2, current_event |-> ev, events |-> st.events, err |-> "none"]

\* ------------------------------------------------------- file to lines

RECURSIVE Flatten(_)
Flatten(ss) == IF ss = <<>> THEN <<>> ELSE Head(ss) \o Flatten(Tail(ss))

\* content.replace('--', '\n'): every fragment becomes a line of its own
ReplaceDelimiter(content) == Flatten(content)

\* logfile.strip().split("\n"): the empty lines at both ends are dropped, and a
\* text with nothing else is one empty line
StripSplit(content) ==
    IF \A j \in 1..Len(content) : content[j] = EmptyLine THEN <<EmptyLine>>
    ELSE LET first == CHOOSE j \in 1..Len(content) :
                        content[j] # EmptyLine /\ \A k \in 1..(j - 1) : content[k] = EmptyLine
             last  == CHOOSE j \in 1..Len(content) :
                        content[j] # EmptyLine
                        /\ \A k \in (j + 1)..Len(content) : content[k] = EmptyLine
         IN  SubSeq(content, first, last)

\* -------------------------------------------------------------- reducers

\* Execution time thresholds for the summary
thresholds == <<10, 50, 100, 200, 500, 1000, 2000, 5000, 10000>>

NoAverage == [averages |-> EmptyDict, counts |-> EmptyDict, overall |-> 0]

\* what reading event["operation_type"] and event["ExecutionTime"] and using
\* the operation type as a dict key raises, "none" when nothing
EventKeyError(event) ==
    IF KeyOperationType \notin DOMAIN event \/ KeyExecutionTime \notin DOMAIN event
    THEN "KeyError"
    ELSE IF event[KeyOperationType].kind = "list" THEN "TypeError"
    ELSE "none"

RECURSIVE AverageLoop(_, _, _)
\* the for loop of calculate_average_execution_time from event k on;
\* acc = [counts, sums, total, n, err]
AverageLoop(es, k, acc) ==
    IF k > Len(es) \/ acc.err # "none" THEN acc
    ELSE LET event == es[k]
             e == EventKeyError(event)
         IN  IF e # "none" THEN [acc EXCEPT !.err = e]
             ELSE LET op == event[KeyOperationType].items[1]
                      t  == event[KeyExecutionTime].num
                      seen == op \in DOMAIN acc.counts
                  IN  AverageLoop(es, k + 1,
                        [counts |-> DictSet(acc.counts, op,
                                            IF seen THEN acc.counts[op] + 1 ELSE 1),
                         sums   |-> DictSet(acc.sums, op,
                                            IF seen THEN acc.sums[op] + t ELSE t),
                         total  |-> acc.total + t,
                         n      |-> acc.n + 1,
                         err    |-> "none"])

\* calculate_average_execution_time(events): [err, averages, counts, overall]
CalculateAverage(es) ==
    LET acc == AverageLoop(es, 1, [counts |-> EmptyDict, sums |-> EmptyDict,
                                   total |-> 0, n |-> 0, err |-> "none"])
        averages == [op \in DOMAIN acc.counts |->
                        FloatToInt(TrueDivide(acc.sums[op], acc.counts[op]))]
    IN  IF acc.err # "none"
        THEN [err |-> acc.err, averages |-> EmptyDict, counts |-> EmptyDict, overall |-> 0]
        ELSE IF acc.n = 0
        THEN [err |-> "ZeroDivisionError", averages |-> averages, counts |-> acc.counts,
              overall |-> 0]
        ELSE [err |-> "none", averages |-> averages, counts |-> acc.counts,
              overall |-> FloatToInt(TrueDivide(acc.total, acc.n))]

\* what re.findall raises on the 'filter' and 'client' values of the events
\* (extract_filter_attributes, extract_client_ips, extract_client_ip_ports)
FindallError(es) ==
    IF \E k \in 1..Len(es) : \E key \in {KeyFilter, KeyClient} :
            key \in DOMAIN es[k] /\ es[k][key].kind # "str"
    THEN "TypeError"
    ELSE "none"

\* FirstFit with "<" for "<=": an execution time on a threshold goes one
\* bucket up
FirstFitStrict(ts, execution_time) ==
    IF \E j \in 1..Len(ts) : execution_time < ts[j]
    THEN CHOOSE j \in 1..Len(ts) :
            execution_time < ts[j] /\ \A k \in 1..(j - 1) : ~(execution_time < ts[k])
    ELSE 0

\* the inner loop of calculate_execution_time_distribution: the place in ts of
\* the first threshold the execution time does not exceed, 0 when there is none
FirstFit(ts, execution_time) ==
    IF \E j \in 1..Len(ts) : execution_time <= ts[j]
    THEN CHOOSE j \in 1..Len(ts) :
            execution_time <= ts[j] /\ \A k \in 1..(j - 1) : ~(execution_time <= ts[k])
    ELSE 0

\* the body of the for loop of calculate_execution_time_distribution for one
\* event: [err, dist]
DistributionStep(ts, d, event) ==
    LET e == EventKeyError(event)
    IN  IF e # "none" THEN [err |-> e, dist |-> d]
        ELSE LET op == event[KeyOperationType].items[1]
                 t  == event[KeyExecutionTime].num
                 row == IF op \in DOMAIN d THEN d[op]
                        ELSE [x \in {ts[j] : j \in 1..Len(ts)} |-> 0]
                 f == FirstFit(ts, t)
             IN  [err |-> "none",
                  dist |-> DictSet(d, op,
                              IF f = 0 THEN row ELSE [row EXCEPT ![ts[f]] = @ + 1])]

\* ----------------------------------------------------------------- state

VARIABLES
    raw,            \* the log file: raw lines, each a sequence of fragments
    modified,       \* the modified file read_and_modify_log_file writes
    lines,          \* parse_log_file: lines
    i,              \* parse_log_file: i
    current_event,  \* parse_log_file: current_event
    events,         \* parse_log_file: events
    result,         \* main: events, the list parse_log_file returned
    thr,            \* the thresholds handed to calculate_execution_time_distribution
    d_i,            \* calculate_execution_time_distribution: events already looped over
    dist,           \* calculate_execution_time_distribution: operation_type_distribution
    avg,            \* what calculate_average_execution_time returned
    caller,         \* "main", or "call" for a reducer called on its own
    pc,             \* the statement that runs next
    err             \* the uncaught exception that ended the run and the function
                    \* that raised it, NoError while there is none

vars == <<raw, modified, lines, i, current_event, events, result, thr, d_i, dist, avg,
          caller, pc, err>>

NoError == [exc |-> "none", at |-> "none"]
Raised(exc, at) == IF exc = "none" THEN NoError ELSE [exc |-> exc, at |-> at]

\* ---------------------------------------------------------------- inputs

TsA == <<"2024-01-01-10:00:00.000000+00:00">>
TsB == <<"2024-01-01-10:00:01.000000+00:00">>
Rc150 == <<"2024-01-01-10:00:00.150000+00:00">>
Rc1001 == <<"2024-01-01-11:00:01.001000+01:00">>

Attr(key, value) == <<key, Separator>> \o value

\* The raw lines the input files are made of: well-formed records (the second
\* received 1.001 s after its timestamp and in another UTC offset, the third
\* received before its timestamp, with a repeated attribute, a value holding
\* the separator and a line without one), records without received, with an
\* unparsable received or timestamp, records with an attribute named like a
\* field of the event, a line that opens no record, a record cut after its
\* timestamp, and an empty line.
RawLineCatalogue ==
    { <<Marker, TsA, <<"SEARCH">>, Attr("filter", <<"(uid=bob)">>), Attr("received", Rc150)>>,
      <<Marker, TsA, <<"BIND">>, Attr("received", Rc1001)>>,
      <<Marker, TsB, <<"SEARCH">>, Attr("member", <<"cn=a">>), Attr("received", Rc150),
        <<"controls">>, Attr("member", <<"cn=b", Separator, "c">>)>>,
      <<Marker, TsA, <<"SEARCH">>, Attr("member", <<"cn=a">>)>>,
      <<Marker, TsA, <<"SEARCH">>, Attr("received", <<"yesterday">>)>>,
      <<Marker, <<"10:00">>, <<"SEARCH">>, Attr("received", Rc150)>>,
      <<Marker, TsA, <<"SEARCH">>, Attr("timestamp", TsB), Attr("received", Rc150)>>,
      <<Marker, TsA, <<"SEARCH">>, Attr("operation_type", <<"MODIFY">>),
        Attr("received", Rc150)>>,
      <<<<"junk">>, Attr("member", <<"cn=a">>)>>,
      <<Marker, TsA>>,
      <<EmptyLine>> }

RawFiles == UNION {[1..n -> RawLineCatalogue] : n \in 0..MaxRawLines}

\* the events a reducer called on its own is handed: the two fields the
\* reducers read
ReducerEvents ==
    {DictSet(DictSet(EmptyDict, KeyOperationType, StrV(<<op>>)), KeyExecutionTime, IntV(t)) :
        op \in {"SEARCH", "BIND"}, t \in {5, 10, 60, 101}}

ReducerEventLists == UNION {[1..n -> ReducerEvents] : n \in 0..MaxEvents}

\* the threshold lists a reducer called on its own is handed: the ascending
\* lists over three values, and two that are not ascending
ThresholdLists ==
    { <<>>, <<10>>, <<50>>, <<100>>, <<10, 50>>, <<10, 100>>, <<50, 100>>, <<10, 50, 100>>,
      <<50, 10>>, <<100, 50, 10>> }

\* ------------------------------------------------------------------ main

Init ==
    /\ raw \in RawFiles
    /\ modified = <<>>
    /\ lines = <<>>
    /\ i = 0
    /\ current_event = EmptyDict
    /\ events = <<>>
    /\ result = <<>>
    /\ thr = thresholds
    /\ d_i = 0
    /\ dist = EmptyDict
    /\ avg = NoAverage
    /\ caller = "main"
    /\ pc = "read_and_modify"
    /\ err = NoError

\* main, line 295: read_and_modify_log_file(file_path, modified_file_path)
ReadAndModify ==
    /\ pc = "read_and_modify"
    /\ modified' = ReplaceDelimiter(raw)
    /\ pc' = "parse_open"
    /\ UNCHANGED <<raw, lines, i, current_event, events, result, thr, d_i, dist, avg,
                   caller, err>>

\* parse_log_file, lines 53-62: the file is read and cut into lines
ParseOpen ==
    /\ pc = "parse_open"
    /\ lines' = StripSplit(modified)
    /\ i' = 0
    /\ events' = <<>>
    /\ current_event' = EmptyDict
    /\ pc' = "parse_loop"
    /\ UNCHANGED <<raw, modified, result, thr, d_i, dist, avg, caller, err>>

\* parse_log_file, lines 95-97: the modified file cannot be read; the IOError is
\* caught and [] returned
ParseOpenFails ==
    /\ pc = "parse_open"
    /\ result' = <<>>
    /\ pc' = "line_check"
    /\ UNCHANGED <<raw, modified, lines, i, current_event, events, thr, d_i, dist, avg,
                   caller, err>>

\* parse_log_file, lines 63-92: one pass of the while loop; an exception other
\* than IOError leaves parse_log_file and main
ParseIteration ==
    /\ pc = "parse_loop"
    /\ i < Len(lines)
    /\ \E st \in {Iteration(lines, [i |-> i, current_event |-> current_event,
                                     events |-> events, err |-> "none"])} :
           /\ i' = st.i
           /\ current_event' = st.current_event
           /\ events' = st.events
           /\ err' = Raised(st.err, "parse_log_file")
           /\ pc' = IF st.err = "none" THEN "parse_loop" ELSE "crashed"
    /\ UNCHANGED <<raw, modified, lines, result, thr, d_i, dist, avg, caller>>

\* parse_log_file, line 94: return events
ParseReturn ==
    /\ pc = "parse_loop"
    /\ ~(i < Len(lines))
    /\ result' = events
    /\ pc' = "line_check"
    /\ UNCHANGED <<raw, modified, lines, i, current_event, events, thr, d_i, dist, avg,
                   caller, err>>

\* main, line 303: the lines of the original file
NumLinesOriginal(file) == Len(file)

\* main, lines 301-309: the line count of the original file against the ceiling
CheckLineThreshold ==
    /\ pc = "line_check"
    /\ pc' = IF NumLinesOriginal(raw) > line_threshold THEN "oversized" ELSE "empty_check"
    /\ UNCHANGED <<raw, modified, lines, i, current_event, events, result, thr, d_i, dist,
                   avg, caller, err>>

\* main, lines 311-314: "No events found in the log file."
CheckEmpty ==
    /\ pc = "empty_check"
    /\ pc' = IF Len(result) = 0 THEN "no_events" ELSE "average"
    /\ UNCHANGED <<raw, modified, lines, i, current_event, events, result, thr, d_i, dist,
                   avg, caller, err>>

\* calculate_average_execution_time(events), called by main at line 317 or on
\* its own
Average ==
    /\ pc = "average"
    /\ \E r \in {CalculateAverage(result)} :
           /\ err' = Raised(r.err, "calculate_average_execution_time")
           /\ avg' = [averages |-> r.averages, counts |-> r.counts, overall |-> r.overall]
           /\ pc' = IF r.err # "none" THEN "crashed"
                    ELSE IF caller = "main" THEN "rank_and_tally" ELSE "done"
    /\ UNCHANGED <<raw, modified, lines, i, current_event, events, result, thr, d_i, dist,
                   caller>>

\* main, lines 332-364: the slowest events, the filter attributes and the
\* clients are ranked and printed; the events are only read
RankAndTally ==
    /\ pc = "rank_and_tally"
    /\ err' = Raised(FindallError(result), "re.findall")
    /\ pc' = IF FindallError(result) = "none" THEN "distribution" ELSE "crashed"
    /\ UNCHANGED <<raw, modified, lines, i, current_event, events, result, thr, d_i, dist,
                   avg, caller>>

\* calculate_execution_time_distribution, lines 220-230: the loop's pass for the
\* next event
DistributionIteration ==
    /\ pc = "distribution"
    /\ d_i < Len(result)
    /\ \E r \in {DistributionStep(thr, dist, result[d_i + 1])} :
           /\ dist' = r.dist
           /\ err' = Raised(r.err, "calculate_execution_time_distribution")
           /\ pc' = IF r.err = "none" THEN "distribution" ELSE "crashed"
    /\ d_i' = d_i + 1
    /\ UNCHANGED <<raw, modified, lines, i, current_event, events, result, thr, avg, caller>>

\* calculate_execution_time_distribution, line 232: return; main prints the
\* table and ends
DistributionReturn ==
    /\ pc = "distribution"
    /\ ~(d_i < Len(result))
    /\ pc' = "done"
    /\ UNCHANGED <<raw, modified, lines, i, current_event, events, result, thr, d_i, dist,
                   avg, caller, err>>

Next ==
    \/ ReadAndModify
    \/ ParseOpen
    \/ ParseOpenFails
    \/ ParseIteration
    \/ ParseReturn
    \/ CheckLineThreshold
    \/ CheckEmpty
    \/ Average
    \/ RankAndTally
    \/ DistributionIteration
    \/ DistributionReturn

Spec == Init /\ [][Next]_vars

\* ------------------------------------------- a reducer called on its own

InitReducer ==
    /\ raw = <<>>
    /\ modified = <<>>
    /\ lines = <<>>
    /\ i = 0
    /\ current_event = EmptyDict
    /\ events = <<>>
    /\ result \in ReducerEventLists
    /\ \/ pc = "average" /\ thr = thresholds
       \/ pc = "distribution" /\ thr \in ThresholdLists
    /\ d_i = 0
    /\ dist = EmptyDict
    /\ avg = NoAverage
    /\ caller = "call"
    /\ err = NoError

NextReducer ==
    \/ Average
    \/ DistributionIteration
    \/ DistributionReturn

SpecReducer == InitReducer /\ [][NextReducer]_vars

\* ------------------------------------------------- the words of the claims

\* The records of a line sequence, by the input grammar: a marker line opens a
\* record and the two lines after it are its timestamp and operation type,
\* whatever they hold; the lines up to the next marker are its attribute lines.
RECURSIVE OpenersFrom(_, _)
OpenersFrom(ls, p) ==
    IF p > Len(ls) THEN <<>>
    ELSE IF ls[p] = Marker THEN <<p>> \o OpenersFrom(ls, p + 3)
    ELSE OpenersFrom(ls, p + 1)

\* the places of the record-opening marker lines, in input order
Openers(ls) == OpenersFrom(ls, 1)

\* the place of the last line of record k
RecordEnd(ls, k) ==
    IF k < Len(Openers(ls)) THEN Openers(ls)[k + 1] - 1 ELSE Len(ls)

\* a record cut short: no timestamp or no operation type line follows the marker
Truncated(ls, k) == Openers(ls)[k] + 2 > Len(ls)

\* the lines of record k after its operation type
RecordLines(ls, k) == SubSeq(ls, Openers(ls)[k] + 3, RecordEnd(ls, k))

\* the values of the attribute lines of record k with the given key, in the
\* order of the lines
AttributeValues(ls, k, key) ==
    LET IsKey(l) == Len(Split(l)) = 2 /\ Split(l)[1] = key
        hits == SelectSeq(RecordLines(ls, k), IsKey)
    IN  [j \in 1..Len(hits) |-> Split(hits[j])[2]]

\* the keys of the attribute lines of record k
AttributeKeys(ls, k) ==
    {Split(RecordLines(ls, k)[j])[1] :
        j \in {x \in 1..Len(RecordLines(ls, k)) : Len(Split(RecordLines(ls, k)[x])) = 2}}

\* record k has a parsable timestamp and exactly one received attribute, parsable
RecordWellFormed(ls, k) ==
    /\ ~Truncated(ls, k)
    /\ StrpTime(ls[Openers(ls)[k] + 1]).ok
    /\ Len(AttributeValues(ls, k, KeyReceived)) = 1
    /\ StrpTime(AttributeValues(ls, k, KeyReceived)[1]).ok

\* record k has no received attribute, or a timestamp or a received value that
\* does not parse
RecordMalformed(ls, k) ==
    \/ Truncated(ls, k)
    \/ ~StrpTime(ls[Openers(ls)[k] + 1]).ok
    \/ Len(AttributeValues(ls, k, KeyReceived)) = 0
    \/ \E j \in 1..Len(AttributeValues(ls, k, KeyReceived)) :
            ~StrpTime(AttributeValues(ls, k, KeyReceived)[j]).ok

\* the records whose closing boundary, the next marker line or the end of the
\* input, lies at or before the line index j (counted from 0)
ClosedRecords(ls, j) == {k \in 1..Len(Openers(ls)) : RecordEnd(ls, k) <= j}

ParserRunning == pc = "parse_loop"
ParserRaised == pc = "crashed" /\ err.at = "parse_log_file"
\* parse_log_file has returned its list to main
ParserReturned == caller = "main" /\ lines # <<>> /\ ~ParserRunning /\ ~ParserRaised
ParserStarted == ParserRunning \/ ParserRaised \/ ParserReturned
RunEnded == pc \in {"done", "oversized", "no_events", "crashed"}

\* ------------------------------------------------------------------- C1

\* C1: for a line sequence whose first line is the marker and whose records all
\* have a parsable timestamp and exactly one parsable received attribute,
\* parse_log_file raises nothing, at every moment its output holds exactly the
\* records whose closing boundary has been reached, one Event each and in
\* input order, and the list it returns holds one Event per record.
C1_OneEventPerRecord ==
    (/\ ParserStarted
     /\ lines[1] = Marker
     /\ \A k \in 1..Len(Openers(lines)) : RecordWellFormed(lines, k))
    => /\ ~ParserRaised
       /\ Len(events) = Cardinality(ClosedRecords(lines, i))
       /\ \A k \in 1..Len(events) :
            /\ events[k][KeyTimestamp] = StrV(lines[Openers(lines)[k] + 1])
            /\ events[k][KeyReceived] = StrV(AttributeValues(lines, k, KeyReceived)[1])
       /\ ParserReturned => result = events /\ Len(result) = Len(Openers(lines))

\* C1 holds of the inputs none of whose attribute lines is named timestamp.
C1_WithoutTimestampAttribute ==
    (/\ ParserStarted
     /\ lines[1] = Marker
     /\ \A k \in 1..Len(Openers(lines)) :
            RecordWellFormed(lines, k) /\ KeyTimestamp \notin AttributeKeys(lines, k))
    => /\ ~ParserRaised
       /\ Len(events) = Cardinality(ClosedRecords(lines, i))
       /\ \A k \in 1..Len(events) :
            /\ events[k][KeyTimestamp] = StrV(lines[Openers(lines)[k] + 1])
            /\ events[k][KeyReceived] = StrV(AttributeValues(lines, k, KeyReceived)[1])
       /\ ParserReturned => result = events /\ Len(result) = Len(Openers(lines))

\* ------------------------------------------------------------------- C2

\* C2: in every Event parse_log_file returns, a key that occurs once on the
\* attribute lines of the Event's record holds that single string, and a key
\* that occurs k >= 2 times holds the list of the k values in line order.
C2_AttributeValues ==
    (ParserReturned /\ lines[1] = Marker /\ Len(result) = Len(Openers(lines)))
    => \A k \in 1..Len(result) : \A key \in AttributeKeys(lines, k) :
          /\ key \in DOMAIN result[k]
          /\ result[k][key] =
                IF Len(AttributeValues(lines, k, key)) = 1
                THEN StrV(AttributeValues(lines, k, key)[1])
                ELSE ListV(AttributeValues(lines, k, key))

\* ------------------------------------------------------------------- C3

\* C3: the ExecutionTime of every Event in the parser's output is a non-negative
\* integer, the absolute difference of its received and timestamp instants in
\* whole milliseconds, truncated.
C3_ExecutionTimeTruncated ==
    \A k \in 1..Len(events) :
        /\ events[k][KeyExecutionTime].kind = "int"
        /\ events[k][KeyExecutionTime].num >= 0
        /\ events[k][KeyExecutionTime].num =
              Abs(StrpTime(events[k][KeyReceived].items[1]).us
                  - StrpTime(events[k][KeyTimestamp].items[1]).us) \div 1000

\* ------------------------------------------------------------------- C4

HasMalformedRecord(ls) == \E k \in 1..Len(Openers(ls)) : RecordMalformed(ls, k)

\* C4: when a record of the input the parser reads has no received attribute, or
\* a timestamp or received value that does not parse, parse_log_file never
\* returns: its loop cannot run out of lines, main is handed no list (not even
\* the Events closed before the malformed record), and no statement of main
\* after the call runs.
C4_MalformedRecordIsFatal ==
    (lines # <<>> /\ HasMalformedRecord(lines))
    => /\ ParserRunning \/ ParserRaised
       /\ ParserRunning => i < Len(lines)
       /\ result = <<>>
       /\ avg = NoAverage /\ dist = EmptyDict /\ d_i = 0

\* a run that raised at a malformed record after it had closed a well-formed one
C4_Witness ==
    /\ ParserRaised
    /\ HasMalformedRecord(lines)
    /\ Len(events) >= 1
    /\ result = <<>>

\* ------------------------------------------------------------------- C5

\* no line of the file is a marker line
NoRecord(file) == \A r \in 1..Len(file) : \A f \in 1..Len(file[r]) : file[r][f] # Marker

\* C5: a run on an input without any record ends normally with the
\* 'no events found' report.
C5_NoRecordEndsInNoEvents ==
    (/\ caller = "main"
     /\ NoRecord(raw)
     /\ NumLinesOriginal(raw) <= line_threshold
     /\ RunEnded)
    => pc = "no_events"

\* ------------------------------------------------------------------- C6

\* C6: on a file longer than line_threshold the parser is never started.
C6_OversizedNeverParsed ==
    (caller = "main" /\ NumLinesOriginal(raw) > line_threshold) => ~ParserStarted

\* ------------------------------------------------------------------- C7

Ascending(ts) == \A j \in 1..Len(ts) : \A k \in (j + 1)..Len(ts) : ts[j] <= ts[k]
Values(ts) == {ts[j] : j \in 1..Len(ts)}

OperationTypeOf(event) == event[KeyOperationType].items[1]
ExecutionTimeIn(event) == event[KeyExecutionTime].num

\* t is the smallest threshold of ts that is >= the event's execution time
SmallestThresholdFor(ts, event, t) ==
    /\ t \in Values(ts)
    /\ ExecutionTimeIn(event) <= t
    /\ \A u \in Values(ts) : ExecutionTimeIn(event) <= u => t <= u

RECURSIVE SumOver(_, _)
SumOver(row, S) ==
    IF S = {} THEN 0
    ELSE LET x == CHOOSE y \in S : TRUE IN row[x] + SumOver(row, S \ {x})

\* C7: with an ascending threshold list, after any number of events the loop
\* has passed, the buckets exist for exactly the operation types seen, every
\* bucket counts the events of its type whose smallest threshold >= their
\* ExecutionTime it is, and the buckets of a type sum to the number of its
\* events whose ExecutionTime is <= the largest threshold.
C7_DistributionCoverage ==
    (caller = "call" /\ pc \in {"distribution", "done"} /\ Ascending(thr))
    => LET seen == 1..d_i
       IN  /\ DOMAIN dist = {OperationTypeOf(result[k]) : k \in seen}
           /\ \A op \in DOMAIN dist :
                /\ DOMAIN dist[op] = Values(thr)
                /\ \A t \in Values(thr) :
                      dist[op][t] = Cardinality({k \in seen :
                          /\ OperationTypeOf(result[k]) = op
                          /\ SmallestThresholdFor(thr, result[k], t)})
                /\ SumOver(dist[op], Values(thr)) = Cardinality({k \in seen :
                          /\ OperationTypeOf(result[k]) = op
                          /\ \E t \in Values(thr) : ExecutionTimeIn(result[k]) <= t})

\* a finished distribution over two thresholds or more, with an event beyond
\* the largest threshold, an event on a threshold and a bucket that counts two
C7_Witness ==
    /\ caller = "call" /\ pc = "done" /\ Ascending(thr) /\ Len(thr) >= 2 /\ d_i = Len(result)
    /\ \E k \in 1..Len(result) : \A t \in Values(thr) : ExecutionTimeIn(result[k]) > t
    /\ \E k \in 1..Len(result) : ExecutionTimeIn(result[k]) \in Values(thr)
    /\ \E op \in DOMAIN dist : \E t \in Values(thr) : dist[op][t] >= 2

\* ------------------------------------------------------------------- C8

\* C8: calculate_average_execution_time applied to an empty Event sequence
\* returns; it does not fail on the division by the zero event count.
C8_AverageOfNothingReturns ==
    ~(caller = "call" /\ Len(result) = 0 /\ pc = "crashed"
      /\ err.at = "calculate_average_execution_time")

\* ------------------------------------------------------------------- C9

\* C9: the timestamp and operation_type of every Event parse_log_file returns
\* are the two lines after the marker line of its record, single strings,
\* whatever attribute lines the record holds.
C9_HeaderFieldsKept ==
    (ParserReturned /\ lines[1] = Marker /\ Len(result) = Len(Openers(lines)))
    => \A k \in 1..Len(result) :
          /\ result[k][KeyTimestamp] = StrV(lines[Openers(lines)[k] + 1])
          /\ result[k][KeyOperationType] = StrV(lines[Openers(lines)[k] + 2])

\* ------------------------------------------------------------------ C10

RECURSIVE RunLoop(_, _)
\* the while loop of parse_log_file run to its end from the parser state st
RunLoop(ls, st) ==
    IF st.err # "none" \/ ~(st.i < Len(ls)) THEN st ELSE RunLoop(ls, Iteration(ls, st))

\* what parse_log_file makes of the lines ls: the list it returns, or the
\* exception it raises
ParseOutcome(ls) ==
    LET st == RunLoop(ls, [i |-> 0, current_event |-> EmptyDict, events |-> <<>>,
                           err |-> "none"])
    IN  [raised |-> st.err # "none", returned |-> IF st.err = "none" THEN st.events ELSE <<>>]

\* ls from its first marker line on
FromFirstMarker(ls) == SubSeq(ls, Openers(ls)[1], Len(ls))

\* C10: when lines that are no marker precede the first marker line, the parse
\* ends as the parse of the input without those lines ends: it raises only if
\* the other raises, and returns the same Events.
C10_LeadingLinesIgnored ==
    (/\ ParserRaised \/ ParserReturned
     /\ lines[1] # Marker
     /\ Openers(lines) # <<>>)
    => [raised |-> ParserRaised, returned |-> result] = ParseOutcome(FromFirstMarker(lines))

====
